---- MODULE Spec2Model ----
(***************************************************************************)
(* Credential lifecycle, PKCE session map and venue fallback sequencer of  *)
(* app.py (Flask application).  Every inbound HTTP request first runs the  *)
(* before_request hook cleanup_sessions, then its handler.  Upstream       *)
(* responses (identity provider, table-lock and table-booking endpoints)   *)
(* and file-system outcomes are nondeterministic inputs.                   *)
(***************************************************************************)
EXTENDS Integers, Sequences, FiniteSets, TLC

\* ------------------------------------------------------------------ bounds
MaxSessions == 2      \* start-auth calls modelled
MaxTokens   == 2      \* provider 200 responses of the token endpoint modelled
MaxVenues   == 2      \* longest venue list given to auto-book
MaxTicks    == 3      \* clock advances modelled
StartTime   == 10000  \* wall clock (seconds) of the initial state

TickSteps == {1, 599}
VenueIds  == {"A", "B"}
LockIds   == {1, 2}

\* ------------------------------------------------------- program constants
SessionTimeout   == 600    \* cleanup_sessions: 10 min timeout
RefreshBuffer    == 300    \* auto_book: 5 min buffer
DefaultExpiresIn == 7200   \* .get('expires_in', 7200)
DefaultCreatedAt == 0      \* auto_book: token_data.get('created_at', 0)
ProvidedExpiresIn == 900   \* an expires_in value the provider may answer with

\* ------------------------------------------------------------ value domains
NoVal    == -1                 \* key absent from a JSON object (integer field)
NoToken  == 0                  \* key absent / null (token field)
NoSid    == 0                  \* session_id missing from the request body
NoLock   == 0                  \* 'id' absent from the lock response body
NoCode   == ""                 \* no code parameter in the redirect URL
NoState  == <<"state", 0>>     \* no state parameter in the redirect URL
Raised   == 0                  \* requests.post raised: no status code

Statuses == {200, 201, 204, 409}   \* upstream answers of the table endpoints
TokenStatuses == {200, 401}        \* upstream answers of the token endpoint

NoRecord == [access_token |-> NoToken, refresh_token |-> NoToken,
             created_at |-> NoVal, expires_in |-> NoVal, token_type |-> "None"]
AbsentFile  == [kind |-> "absent",  data |-> NoRecord]
CorruptFile == [kind |-> "corrupt", data |-> NoRecord]

NoOutcome == [status |-> <<"None", "">>, time |-> NoVal, venue |-> "None",
              booking_time |-> <<0, "">>, venues_tried |-> <<>>,
              has_venue |-> FALSE, has_tried |-> FALSE]
AbsentOutcome == [kind |-> "absent", data |-> NoOutcome]

VARIABLES
  now,             \* time.time(), whole seconds
  ticks,           \* clock advances so far
  oauth_sessions,  \* app.py oauth_sessions: session_id -> session data
  nextSid,         \* session ids handed out so far (secrets.token_urlsafe)
  tokensFile,      \* content of TOKENS_FILE
  lastBookingFile, \* content of LAST_BOOKING_FILE
  tokenCtr,        \* access tokens issued by the provider so far
  lastAuth,        \* the most recent complete-auth call and its outcome
  authHist,        \* per session id: was complete-auth called / answered before
  run,             \* the auto-book run in progress or last finished
  reqs             \* outbound requests of that run, in sending order

\* the data directory seen one system call at a time (overlapping requests)
VARIABLES
  disk,            \* directory entries of TOKENS_FILE / its temp file, inodes
  saving,          \* per request thread: position inside save_json_file
  lastLoad         \* what the latest load_json_file(TOKENS_FILE) returned

\* requests served by different threads of the server at the same time
VARIABLES
  threads,         \* per request thread: position inside its handler
  exchanges,       \* per session id: token requests sent to the provider
  runs,            \* per overlapping auto_book call: that call's locals
  rlog             \* outbound requests of the overlapping calls, in order

cvars == <<threads, exchanges, runs, rlog>>
fvars == <<disk, saving, lastLoad, threads, exchanges, runs, rlog>>
vars == <<now, ticks, oauth_sessions, nextSid, tokensFile, lastBookingFile,
          tokenCtr, lastAuth, authHist, run, reqs, disk, saving, lastLoad,
          threads, exchanges, runs, rlog>>

\* ----------------------------------------------------------- PKCE helpers
\* generate_code_verifier: 32 random bytes; a fresh value per call
generate_code_verifier(n) == <<"verifier", n>>

\* (variant: the digest is salted with the time of the call)
generate_code_challenge_Salted(verifier) == <<"S256", verifier, now>>

\* generate_code_challenge: S256 digest of the verifier (injective here)
generate_code_challenge(verifier) == <<"S256", verifier>>

\* secrets.token_urlsafe(32): a fresh state per call
generate_state(n) == <<"state", n>>

\* (variant: a session is dropped at exactly the timeout)
Expired_Inclusive(created_at, t) == t - created_at >= SessionTimeout

\* the condition under which cleanup_sessions drops a session
Expired(created_at, t) == t - created_at > SessionTimeout

\* (variant: no sweep)
cleanup_sessions_Skipped(m, t) == m

\* cleanup_sessions (before_request hook)
cleanup_sessions(m, t) ==
  [s \in {x \in DOMAIN m : ~Expired(m[x].created_at, t)} |-> m[s]]

\* (variant: the whole map is emptied)
DelSession_Clear(m, sid) == <<>>

\* del oauth_sessions[session_id]
DelSession(m, sid) == [s \in DOMAIN m \ {sid} |-> m[s]]

\* ------------------------------------------------------- credential store
\* (variant: only a missing file counts as absent)
Loaded_CorruptParses(file) == file.kind # "absent"

\* load_json_file: None on a missing file and on any parse / IO failure
Loaded(file) == file.kind = "json"
load_json_file(file) == IF Loaded(file) THEN file.data ELSE NoRecord

\* json.dump: the text of an object, one encoded value per key
json_dump(data) == [k \in DOMAIN data |-> <<"json", data[k]>>]

\* (variant: a parser that fills in the default lifetime)
json_load_Lossy(text) ==
  [k \in DOMAIN text |->
     IF k = "expires_in" THEN DefaultExpiresIn ELSE text[k][2]]

\* json.load of a complete text: the object it denotes
json_load(text) == [k \in DOMAIN text |-> text[k][2]]

\* (variant: writing the target in place, a failure leaves it truncated)
save_json_file_InPlace(file, data, ok) ==
  IF ok THEN [kind |-> "json", data |-> json_load(json_dump(data))]
  ELSE CorruptFile

\* save_json_file: temp file + rename; on failure the target is untouched
save_json_file(file, data, ok) ==
  IF ok THEN [kind |-> "json", data |-> json_load(json_dump(data))] ELSE file

\* ------------------------------------------------------- identity provider
\* bodies the token endpoint may answer with on 200; n is the fresh token
TokenBodies(t, n) ==
  [access_token : {n}, refresh_token : {n, NoToken},
   created_at : {t, NoVal}, expires_in : {ProvidedExpiresIn, NoVal},
   token_type : {"Bearer"}]

\* complete_auth: token_save_data built from the provider response
token_save_data(body, t) ==
  [access_token  |-> body.access_token,
   refresh_token |-> body.refresh_token,
   created_at    |-> IF body.created_at = NoVal THEN t ELSE body.created_at,
   expires_in    |-> IF body.expires_in = NoVal THEN DefaultExpiresIn
                     ELSE body.expires_in,
   token_type    |-> body.token_type]

\* ------------------------------------------------------------------- Init
SessionIds == 1..MaxSessions
NeverIssued == -1          \* a session id no start-auth call handed out

NoUrl == [kind |-> "empty", code |-> NoCode, state |-> NoState]

\* start_auth: the query parameters of the authorization URL that vary
AuthUrl(verifier, state) ==
  [state |-> state, code_challenge_method |-> "S256",
   code_challenge |-> generate_code_challenge(verifier)]
NoAuthUrl == [state |-> NoState, code_challenge_method |-> "None",
              code_challenge |-> generate_code_challenge(
                                   generate_code_verifier(0))]
NoHist == [called |-> FALSE, answered |-> FALSE, auth_url |-> NoAuthUrl]
\* no error body in the complete-auth response
NoError == [error |-> "", status |-> NoVal, response |-> ""]
NoAuth == [called |-> FALSE, sid |-> NoSid, url |-> NoUrl, result |-> "None",
           sent |-> FALSE, code |-> NoCode,
           verifier |-> generate_code_verifier(0), status |-> NoVal,
           known |-> FALSE, age |-> NoVal, expected |-> NoState,
           calledBefore |-> FALSE, answeredBefore |-> FALSE,
           saved |-> FALSE, token |-> NoToken, data |-> NoRecord,
           requests |-> 0, text |-> "", error |-> NoError]

NoDateTime == <<0, "">>    \* date_time omitted by the caller
\* what book_poolside returned for the latest venue attempt
NoReturn == [kind |-> "None", error |-> "", status |-> NoVal, response |-> "",
             http |-> NoVal]
NoRun == [pc |-> "idle", venues |-> <<>>, idx |-> 0, access_token |-> NoToken,
          date_time |-> NoDateTime, result |-> "None", venue |-> "None",
          lock_id |-> NoLock, stale |-> FALSE, loaded |-> AbsentFile,
          started |-> NoVal, saved |-> FALSE, refresh_code |-> NoVal,
          returned |-> NoReturn, party_size |-> NoVal, phone_number |-> ""]

\* ------------------------------------------------ overlapping requests
\* request threads of the development server (threaded by default)
Threads == {1, 2}
\* a thread that serves no request
NoThread == [pc |-> "idle", kind |-> "none", sid |-> NoSid, seen |-> 0,
             expired |-> {}, status |-> NoVal, result |-> "None",
             error |-> "None", saved |-> FALSE, token |-> NoToken]
\* auto_book calls that may overlap: the scheduled one and a manual one
Runners == {1, 2}

\* ------------------------------------------------ the data directory
\* request threads that may be inside save_json_file at the same time
Savers == {1, 2}
Inodes == 1..4
NoIno  == 0
EmptyText == [k \in {} |-> <<"json", 0>>]

\* no file under either name
EmptyDisk == [target |-> NoIno, temp |-> NoIno,
              content |-> [i \in Inodes |-> EmptyText]]
NoSave == [pc |-> "idle", data |-> NoRecord, fd |-> NoIno, written |-> 0,
           result |-> "none"]
NoLoad == [done |-> FALSE, observed |-> "none", result |-> NoRecord]

\* json.dump(data, f): the keys each write() of the buffered file carries
FirstWrite == {"access_token"}
WriteCall(data, n) ==
  LET text == json_dump(data)
      keys == IF n = 1 THEN DOMAIN text \cap FirstWrite
              ELSE DOMAIN text \ FirstWrite
  IN [k \in keys |-> text[k]]

\* write() at the descriptor's offset: later bytes of the file stay
WriteAt(content, chunk) ==
  [k \in DOMAIN content \cup DOMAIN chunk |->
     IF k \in DOMAIN chunk THEN chunk[k] ELSE content[k]]

\* inodes with a name or an open descriptor
InUse(d, sv) ==
  {d.target, d.temp} \cup {sv[p].fd : p \in {q \in Savers : sv[q].pc = "open"}}
FreeIno(d, sv) ==
  CHOOSE i \in Inodes \ InUse(d, sv) :
    \A j \in Inodes \ InUse(d, sv) : i <= j

\* an inode without name and descriptor is released
Collect(d, sv) ==
  [d EXCEPT !.content =
     [i \in Inodes |-> IF i \in InUse(d, sv) THEN d.content[i] ELSE EmptyText]]

\* the file load_json_file finds under the target name
Complete(text) == DOMAIN text = DOMAIN NoRecord
FileAt(d) ==
  IF d.target = NoIno THEN AbsentFile
  ELSE IF Complete(d.content[d.target])
       THEN [kind |-> "json", data |-> json_load(d.content[d.target])]
       ELSE CorruptFile

Init ==
  /\ now = StartTime
  /\ ticks = 0
  /\ oauth_sessions = <<>>
  /\ nextSid = 0
  /\ tokensFile \in {AbsentFile, CorruptFile}
  /\ lastBookingFile = AbsentOutcome
  /\ tokenCtr = 0
  /\ lastAuth = NoAuth
  /\ authHist = [s \in SessionIds \cup {NeverIssued, NoSid} |-> NoHist]
  /\ run = NoRun
  /\ reqs = <<>>
  /\ disk = EmptyDisk
  /\ saving = [p \in Savers |-> NoSave]
  /\ lastLoad = NoLoad
  /\ threads = [t \in Threads |-> NoThread]
  /\ exchanges = [s \in SessionIds |-> 0]
  /\ runs = [r \in Runners |-> NoRun]
  /\ rlog = <<>>

\* --------------------------------------------------------------- the clock
Tick ==
  /\ ticks < MaxTicks
  /\ run.pc = "idle"
  /\ ~lastAuth.called
  /\ \E d \in TickSteps : now' = now + d
  /\ ticks' = ticks + 1
  /\ UNCHANGED fvars
  /\ UNCHANGED <<oauth_sessions, nextSid, tokensFile, lastBookingFile,
                 tokenCtr, lastAuth, authHist, run, reqs>>

\* ------------------------------------------------------------- /start-auth
\* start_auth, after the before_request sweep
StartAuthStore(m, sid, t) ==
  [s \in DOMAIN m \cup {sid} |->
     IF s = sid
     THEN [code_verifier |-> generate_code_verifier(sid),
           state |-> generate_state(sid), created_at |-> t]
     ELSE m[s]]

StartAuth ==
  /\ nextSid < MaxSessions
  /\ ~lastAuth.called
  /\ nextSid' = nextSid + 1
  /\ oauth_sessions' =
       StartAuthStore(cleanup_sessions(oauth_sessions, now), nextSid + 1, now)
  /\ authHist' = [authHist EXCEPT ![nextSid + 1].auth_url =
                    AuthUrl(oauth_sessions'[nextSid + 1].code_verifier,
                            oauth_sessions'[nextSid + 1].state)]
  /\ UNCHANGED fvars
  /\ UNCHANGED <<now, ticks, tokensFile, lastBookingFile, tokenCtr, lastAuth,
                 run, reqs>>

\* ---------------------------------------------------------- /complete-auth
Urls(n) ==
  {NoUrl, [kind |-> "unparsable", code |-> NoCode, state |-> NoState]}
  \cup [kind : {"ok"}, code : {NoCode, "ABC", "XYZ"},
        state : {NoState} \cup {generate_state(k) : k \in 1..n}]

\* (variant: the state is compared before the code is looked for)
CompleteAuthCheck_StateFirst(m, sid, url) ==
  IF sid = NoSid \/ url.kind = "empty" THEN "MissingParams"
  ELSE IF sid \notin DOMAIN m THEN "InvalidSession"
  ELSE IF url.kind = "unparsable" THEN "ParseError"
  ELSE IF url.state # m[sid].state THEN "StateMismatch"
  ELSE IF url.code = NoCode THEN "MissingCode"
  ELSE "ok"

\* (variant: the state parameter is not compared)
CompleteAuthCheck_NoStateCheck(m, sid, url) ==
  IF sid = NoSid \/ url.kind = "empty" THEN "MissingParams"
  ELSE IF sid \notin DOMAIN m THEN "InvalidSession"
  ELSE IF url.kind = "unparsable" THEN "ParseError"
  ELSE IF url.code = NoCode THEN "MissingCode"
  ELSE "ok"

\* the checks complete_auth makes before it contacts the provider;
\* "ok" means the token request is sent
CompleteAuthCheck(m, sid, url) ==
  IF sid = NoSid \/ url.kind = "empty" THEN "MissingParams"
  ELSE IF sid \notin DOMAIN m THEN "InvalidSession"
  ELSE IF url.kind = "unparsable" THEN "ParseError"
  ELSE IF url.code = NoCode THEN "MissingCode"
  ELSE IF url.state # m[sid].state THEN "StateMismatch"
  ELSE "ok"

\* (variant: the session is removed only after a 200 answer)
SessionConsumed_OnlyOn200(status) == status = 200

\* is the session removed once the provider has answered with this status
SessionConsumed(status) == status # Raised

\* (variant: the verifier of the most recent session is sent)
ExchangeVerifier_Latest(m, sid) ==
  m[CHOOSE x \in DOMAIN m : \A y \in DOMAIN m : y <= x].code_verifier

\* complete_auth: token_data["code_verifier"]
ExchangeVerifier(m, sid) == m[sid].code_verifier

AuthEntry(sid, url, swept) ==
  [NoAuth EXCEPT !.called = TRUE, !.sid = sid, !.url = url,
     !.known = sid \in DOMAIN swept,
     !.expected = IF sid \in DOMAIN swept THEN swept[sid].state ELSE NoState,
     !.age = IF sid \in DOMAIN oauth_sessions
             THEN now - oauth_sessions[sid].created_at ELSE NoVal,
     !.calledBefore = authHist[sid].called,
     !.answeredBefore = authHist[sid].answered]

\* complete_auth returns before the token request
CompleteAuthReject(sid, url) ==
  LET swept == cleanup_sessions(oauth_sessions, now)
      check == CompleteAuthCheck(swept, sid, url)
  IN /\ check # "ok"
     /\ oauth_sessions' = swept
     /\ lastAuth' = [AuthEntry(sid, url, swept) EXCEPT !.result = check]
     /\ authHist' = IF sid = NoSid THEN authHist
                    ELSE [authHist EXCEPT ![sid].called = TRUE]
     /\ UNCHANGED <<tokensFile, tokenCtr>>

\* response.text of a token endpoint answer with that status
TokenErrorTexts(status) ==
  IF status = 401 THEN {"invalid_grant", "invalid_client"} ELSE {""}

\* (variant: a failed save turns the call into a failure)
ExchangeResult_SaveAborts(status, ok) ==
  IF status = 200 THEN (IF ok THEN "Success" ELSE "PersistenceFailed")
  ELSE IF status = Raised THEN "InternalError"
  ELSE "TokenExchangeFailed"

\* complete_auth: how the call ends once the token request was made
ExchangeResult(status, ok) ==
  IF status = 200 THEN "Success"
  ELSE IF status = Raised THEN "InternalError"
  ELSE "TokenExchangeFailed"

\* (variant: the error response hides what the provider answered)
TokenExchangeFailed_Generic(status, text) ==
  [error |-> "Failed to exchange code for token", status |-> 500,
   response |-> ""]

\* complete_auth: the error response on a non-200 answer
TokenExchangeFailed(status, text) ==
  [error |-> "Failed to exchange code for token", status |-> status,
   response |-> text]

\* complete_auth: requests.post calls made for one token exchange
TokenRequests(status) == 1

\* complete_auth sends the token request; status Raised: requests.post raised
CompleteAuthExchange(sid, url, status, body, ok, text) ==
  LET swept == cleanup_sessions(oauth_sessions, now)
      entry == [AuthEntry(sid, url, swept) EXCEPT
                  !.sent = TRUE, !.code = url.code,
                  !.verifier = ExchangeVerifier(swept, sid), !.status = status,
                  !.requests = TokenRequests(status), !.text = text,
                  !.result = ExchangeResult(status, ok)]
  IN /\ CompleteAuthCheck(swept, sid, url) = "ok"
     /\ status = 200 => tokenCtr < MaxTokens
     /\ oauth_sessions' = IF SessionConsumed(status) THEN DelSession(swept, sid)
                          ELSE swept
     /\ authHist' = [authHist EXCEPT ![sid].called = TRUE,
                       ![sid].answered = @ \/ status # Raised]
     /\ IF status = 200
        THEN /\ tokensFile' = save_json_file(tokensFile,
                                             token_save_data(body, now), ok)
             /\ tokenCtr' = tokenCtr + 1
             /\ lastAuth' = [entry EXCEPT !.saved = ok,
                                          !.token = body.access_token,
                                          !.data = IF ok
                                            THEN token_save_data(body, now)
                                            ELSE NoRecord]
        ELSE /\ UNCHANGED <<tokensFile, tokenCtr>>
             /\ lastAuth' = [entry EXCEPT !.error =
                  IF status = Raised THEN NoError
                  ELSE TokenExchangeFailed(status, text)]

CompleteAuth ==
  /\ ~lastAuth.called
  /\ \E sid \in (0..nextSid) \cup {NeverIssued}, url \in Urls(nextSid) :
       \/ CompleteAuthReject(sid, url)
       \/ \E body \in TokenBodies(now, tokenCtr + 1), ok \in BOOLEAN :
            CompleteAuthExchange(sid, url, 200, body, ok, "")
       \/ \E status \in (TokenStatuses \cup {Raised}) \ {200} :
          \E text \in TokenErrorTexts(status) :
            CompleteAuthExchange(sid, url, status, NoRecord, FALSE, text)
  /\ UNCHANGED fvars
  /\ UNCHANGED <<now, ticks, nextSid, lastBookingFile, run, reqs>>

\* ---------------------------------------------------------- /refresh-token
\* the checks refresh_token_endpoint makes before it contacts the provider
RefreshCheck(file) ==
  IF ~Loaded(file) THEN "NoTokens"
  ELSE IF load_json_file(file).refresh_token = NoToken THEN "NoRefreshToken"
  ELSE "ok"

RefreshReq(file) ==
  [kind |-> "refresh", venue |-> "None",
   token |-> load_json_file(file).refresh_token, lock_id |-> NoLock,
   status |-> NoVal, date_time |-> NoDateTime, has_token |-> FALSE,
   text |-> ""]

\* refresh_token_endpoint on a 200 answer: the response JSON is saved as is
RefreshStore(file, body, ok) == save_json_file(file, body, ok)

\* (variant: a failed save does not turn the refresh into an error)
RefreshCode_IgnoresSave(check, status, ok) ==
  IF check = "NoTokens" THEN 404
  ELSE IF check = "NoRefreshToken" THEN 400
  ELSE IF status = 200 THEN 200
  ELSE 500

\* HTTP code refresh_token_endpoint returns
RefreshCode(check, status, ok) ==
  IF check = "NoTokens" THEN 404
  ELSE IF check = "NoRefreshToken" THEN 400
  ELSE IF status = 200 /\ ok THEN 200
  ELSE 500

\* ------------------------------------------------------------- /auto-book
\* token_data.get('created_at', 0), token_data.get('expires_in', 7200)
CreatedAt(rec) == IF rec.created_at = NoVal THEN DefaultCreatedAt
                  ELSE rec.created_at
ExpiresIn(rec) == IF rec.expires_in = NoVal THEN DefaultExpiresIn
                  ELSE rec.expires_in

\* (variant: no five-minute buffer)
Stale_NoBuffer(rec, t) == t > CreatedAt(rec) + ExpiresIn(rec)

\* auto_book: time.time() > created_at + expires_in - 300
Stale(rec, t) == t > CreatedAt(rec) + ExpiresIn(rec) - RefreshBuffer

\* (variant: the refresh result is not looked at)
RefreshFailed_Ignored(code) == FALSE

\* auto_book: isinstance(refresh_response, tuple) and refresh_response[1] != 200
RefreshFailed(code) == code # 200

\* auto_book: two days from now at 6 PM when the caller gives no date_time
DefaultDateTime(t) == <<(t \div 86400) + 2, "T18:00">>
BookingDateTime(dt, t) == IF dt = NoDateTime THEN DefaultDateTime(t) ELSE dt

RECURSIVE SeqsUpTo(_, _)
SeqsUpTo(S, n) ==
  IF n = 0 THEN {<<>>}
  ELSE LET shorter == SeqsUpTo(S, n - 1)
       IN shorter \cup {Append(q, x) : q \in shorter, x \in S}

VenueLists == SeqsUpTo(VenueIds, MaxVenues)

\* request bodies of /auto-book: one that leaves the booking parameters out,
\* one that gives them all
RequestBodies ==
  {[date_time |-> NoDateTime, party_size |-> NoVal, phone_number |-> ""],
   [date_time |-> <<5, "T10:00">>, party_size |-> 4,
    phone_number |-> "5550100"]}
DateTimes  == {b.date_time : b \in RequestBodies}
\* the request body that carries this date_time
BodyOf(dt) == CHOOSE b \in RequestBodies : b.date_time = dt

\* auto_book: data.get('party_size', 2), data.get('phone_number', ...)
PartySize(b) == IF b.party_size = NoVal THEN 2 ELSE b.party_size
PhoneNumber(b) == IF b.phone_number = "" THEN "7709255248"
                  ELSE b.phone_number


NewRun(venues, dt) ==
  [NoRun EXCEPT !.venues = venues, !.loaded = tokensFile, !.started = now,
     !.stale = Loaded(tokensFile) /\ Stale(load_json_file(tokensFile), now),
     !.date_time = BookingDateTime(dt, now),
     !.party_size = PartySize(BodyOf(dt)),
     !.phone_number = PhoneNumber(BodyOf(dt))]

EnterLoop(r, token) ==
  [r EXCEPT !.pc = "venues", !.idx = 1, !.access_token = token]

\* auto_book finds no usable record: 404 before anything else
AutoBookNoToken(venues, dt) ==
  /\ ~Loaded(tokensFile)
  /\ run' = [NewRun(venues, dt) EXCEPT !.pc = "done",
                                       !.result = "Unauthenticated"]
  /\ reqs' = <<>>
  /\ UNCHANGED <<tokensFile, tokenCtr>>

\* auto_book finds a fresh record and enters the venue loop
AutoBookFresh(venues, dt) ==
  LET r == NewRun(venues, dt)
  IN /\ Loaded(tokensFile)
     /\ ~r.stale
     /\ run' = EnterLoop(r, load_json_file(tokensFile).access_token)
     /\ reqs' = <<>>
     /\ UNCHANGED <<tokensFile, tokenCtr>>

\* auto_book finds a stale record; refresh_token_endpoint returns without
\* contacting the provider
AutoBookRefreshRejected(venues, dt) ==
  LET r == NewRun(venues, dt)
      code == RefreshCode(RefreshCheck(tokensFile), NoVal, FALSE)
  IN /\ Loaded(tokensFile)
     /\ r.stale
     /\ RefreshCheck(tokensFile) # "ok"
     /\ run' = IF RefreshFailed(code)
               THEN [r EXCEPT !.pc = "done", !.result = "ReauthRequired",
                              !.refresh_code = code]
               ELSE [EnterLoop(r, load_json_file(tokensFile).access_token)
                       EXCEPT !.refresh_code = code]
     /\ reqs' = <<>>
     /\ UNCHANGED <<tokensFile, tokenCtr>>

\* (variant: the run keeps the token of the record loaded at its start)
ReloadedToken_Stale(before, stored) == load_json_file(before).access_token

\* auto_book after a refresh: token_data is loaded again and access_token is
\* taken from that record
ReloadedToken(before, stored) == load_json_file(stored).access_token

\* auto_book finds a stale record; refresh_token_endpoint posts the refresh
AutoBookRefresh(venues, dt, status, body, ok) ==
  LET r == NewRun(venues, dt)
      stored == IF status = 200 THEN RefreshStore(tokensFile, body, ok)
                ELSE tokensFile
      code == RefreshCode("ok", status, ok)
  IN /\ Loaded(tokensFile)
     /\ r.stale
     /\ RefreshCheck(tokensFile) = "ok"
     /\ status = 200 => tokenCtr < MaxTokens
     /\ reqs' = <<[RefreshReq(tokensFile) EXCEPT !.status = status]>>
     /\ tokensFile' = stored
     /\ tokenCtr' = IF status = 200 THEN tokenCtr + 1 ELSE tokenCtr
     /\ run' =
          IF status = Raised
          THEN [r EXCEPT !.pc = "done", !.result = "InternalError",
                         !.refresh_code = Raised]
          ELSE IF RefreshFailed(code)
          THEN [r EXCEPT !.pc = "done", !.result = "ReauthRequired",
                         !.refresh_code = code]
          ELSE IF ~Loaded(stored)
          THEN [r EXCEPT !.pc = "done", !.result = "ReloadFailed",
                         !.refresh_code = code]
          ELSE [EnterLoop(r, ReloadedToken(tokensFile, stored))
                  EXCEPT !.refresh_code = code]

AutoBookStart ==
  /\ run.pc = "idle"
  /\ \E venues \in VenueLists, dt \in DateTimes :
       \/ AutoBookNoToken(venues, dt)
       \/ AutoBookFresh(venues, dt)
       \/ AutoBookRefreshRejected(venues, dt)
       \/ \E status \in TokenStatuses \cup {Raised} :
            \/ /\ status = 200
               /\ \E body \in TokenBodies(now, tokenCtr + 1), ok \in BOOLEAN :
                    AutoBookRefresh(venues, dt, status, body, ok)
            \/ /\ status # 200
               /\ AutoBookRefresh(venues, dt, status, NoRecord, FALSE)
  /\ oauth_sessions' = cleanup_sessions(oauth_sessions, now)
  /\ UNCHANGED fvars
  /\ UNCHANGED <<now, ticks, nextSid, lastBookingFile, lastAuth, authHist>>

\* ----------------------------------------- book_poolside, one venue attempt
\* lock_response.status_code in [200, 201]
LockOk(status) == status \in {200, 201}
\* (variant: every 2xx answer counts as a booking)
BookingOk_Any2xx(status) == status \in 200..299

\* booking_response.status_code in [200, 201]
BookingOk(status) == status \in {200, 201}

\* book_poolside: its three returns, and an exception leaving it
LockFailed(status, text) ==
  [kind |-> "LockFailed", error |-> "Failed to lock table",
   status |-> status, response |-> text, http |-> 500]
BookingFailed(status, text) ==
  [kind |-> "BookingFailed", error |-> "Failed to create booking",
   status |-> status, response |-> text, http |-> 500]
Booked(status) ==
  [kind |-> "Booked", error |-> "", status |-> status, response |-> "",
   http |-> 200]
RaisedOut == [kind |-> "Raised", error |-> "", status |-> NoVal,
              response |-> "", http |-> NoVal]

\* response.text of an answer the table endpoints give with that status
ErrorTexts(status) == IF status = 409 THEN {"full", "closed"} ELSE {""}

\* bodies the lock endpoint may answer with: data.id, data.attributes.token
LockBodies == [id : LockIds \cup {NoLock}, has_token : BOOLEAN]

\* (variant: each further venue is asked for one day later)
AttemptDateTime_PerVenue(r) == <<r.date_time[1] + r.idx - 1, r.date_time[2]>>

\* auto_book: the date_time handed to book_poolside for the current venue
AttemptDateTime(r) == r.date_time

LockReq(r, venue_id) ==
  [kind |-> "lock", venue |-> venue_id, token |-> r.access_token,
   lock_id |-> NoLock, status |-> NoVal, date_time |-> AttemptDateTime(r),
   has_token |-> FALSE, text |-> "", party_size |-> r.party_size,
   phone_number |-> ""]

\* (variant: the booking request names no lock)
BookingLockRef_None(r) == NoLock

\* the lock the booking request names in relationships.table_lock
BookingLockRef(r) == r.lock_id

BookingReq(r, venue_id) ==
  [kind |-> "booking", venue |-> venue_id, token |-> r.access_token,
   lock_id |-> BookingLockRef(r), status |-> NoVal,
   date_time |-> AttemptDateTime(r), has_token |-> FALSE, text |-> "",
   party_size |-> r.party_size, phone_number |-> r.phone_number]

\* auto_book: for venue_id in venues
VenueAt(r) == r.venues[r.idx]

\* (variant: a failed venue is tried a second time before moving on)
AfterFailedVenue_Retry(r) ==
  [r EXCEPT !.pc = "venues", !.lock_id = NoLock,
            !.idx = IF Len(SelectSeq(reqs, LAMBDA q : q.kind = "lock")) < r.idx
                    THEN r.idx ELSE r.idx + 1]

\* what the venue loop does after a venue attempt that returned an error
AfterFailedVenue(r) == [r EXCEPT !.pc = "venues", !.idx = r.idx + 1,
                                 !.lock_id = NoLock]

\* (variant: the loop goes on to the next venue after a success)
AfterBooked_KeepsGoing(r, venue_id, ok) ==
  [r EXCEPT !.pc = "venues", !.idx = r.idx + 1, !.lock_id = NoLock]

\* what the venue loop does after a venue attempt that returned success
AfterBooked(r, venue_id, ok) ==
  [r EXCEPT !.pc = "done", !.result = "Booked", !.venue = venue_id,
            !.saved = ok]

\* book_poolside step 1: the lock request and its answer
AutoBookLock ==
  /\ run.pc = "venues"
  /\ run.idx <= Len(run.venues)
  /\ \E status \in Statuses \cup {Raised}, body \in LockBodies :
     \E text \in ErrorTexts(status) :
       LET venue_id == VenueAt(run)
           req == [LockReq(run, venue_id) EXCEPT !.status = status,
                     !.lock_id = IF LockOk(status) THEN body.id ELSE NoLock,
                     !.has_token = LockOk(status) /\ body.has_token,
                     !.text = text]
       IN /\ reqs' = Append(reqs, req)
          /\ run' =
               IF status = Raised
               THEN [run EXCEPT !.pc = "done", !.result = "InternalError",
                                !.returned = RaisedOut]
               ELSE IF ~LockOk(status)
               THEN [AfterFailedVenue(run) EXCEPT
                       !.returned = LockFailed(status, text)]
               ELSE IF ~body.has_token
               THEN [run EXCEPT !.pc = "done", !.result = "InternalError",
                                !.returned = RaisedOut]
               ELSE [run EXCEPT !.pc = "locked", !.lock_id = body.id]
  /\ UNCHANGED fvars
  /\ UNCHANGED <<now, ticks, oauth_sessions, nextSid, tokensFile,
                 lastBookingFile, tokenCtr, lastAuth, authHist>>

\* (variant: the success record leaves the booking time out)
SuccessOutcome_NoBookingTime(venue_id, date_time, t) ==
  [NoOutcome EXCEPT !.status = <<"Success: Booked", venue_id>>,
     !.time = t \div 60, !.venue = venue_id, !.has_venue = TRUE]

\* auto_book: the record saved to LAST_BOOKING_FILE on success
SuccessOutcome(venue_id, date_time, t) ==
  [NoOutcome EXCEPT !.status = <<"Success: Booked", venue_id>>,
     !.time = t \div 60, !.venue = venue_id, !.booking_time = date_time,
     !.has_venue = TRUE]

\* (variant: the last venue is left out of venues_tried)
FailureOutcome_DropsLast(venues, t) ==
  [NoOutcome EXCEPT !.status = <<"Failed: No venues available", "">>,
     !.time = t \div 60, !.has_tried = TRUE,
     !.venues_tried = IF venues = <<>> THEN venues
                      ELSE SubSeq(venues, 1, Len(venues) - 1)]

\* auto_book: the record saved to LAST_BOOKING_FILE when all venues failed
FailureOutcome(venues, t) ==
  [NoOutcome EXCEPT !.status = <<"Failed: No venues available", "">>,
     !.time = t \div 60, !.venues_tried = venues, !.has_tried = TRUE]

\* (variant: the lock is released after a failed booking)
CompensatingReqs_Unlock(r, venue_id) ==
  <<[BookingReq(r, venue_id) EXCEPT !.kind = "unlock"]>>

\* book_poolside after a failed booking: the requests sent before returning
CompensatingReqs(r, venue_id) == <<>>

\* book_poolside step 2: the booking request and its answer
AutoBookBooking ==
  /\ run.pc = "locked"
  /\ \E status \in Statuses \cup {Raised}, ok \in BOOLEAN :
     \E text \in ErrorTexts(status) :
       LET venue_id == VenueAt(run)
           req == [BookingReq(run, venue_id) EXCEPT !.status = status,
                                                   !.text = text]
       IN /\ reqs' = Append(reqs, req) \o
                       (IF status # Raised /\ ~BookingOk(status)
                        THEN CompensatingReqs(run, venue_id) ELSE <<>>)
          /\ IF status = Raised
             THEN /\ run' = [run EXCEPT !.pc = "done",
                               !.result = "InternalError",
                               !.returned = RaisedOut]
                  /\ UNCHANGED lastBookingFile
             ELSE IF BookingOk(status)
             THEN /\ run' = [AfterBooked(run, venue_id, ok) EXCEPT
                               !.returned = Booked(status)]
                  /\ lastBookingFile' =
                       save_json_file(lastBookingFile,
                         SuccessOutcome(venue_id, run.date_time, now), ok)
             ELSE /\ run' = [AfterFailedVenue(run) EXCEPT
                               !.returned = BookingFailed(status, text)]
                  /\ UNCHANGED lastBookingFile
  /\ UNCHANGED fvars
  /\ UNCHANGED <<now, ticks, oauth_sessions, nextSid, tokensFile, tokenCtr,
                 lastAuth, authHist>>

\* auto_book after the loop: every venue failed
AutoBookExhausted ==
  /\ run.pc = "venues"
  /\ run.idx > Len(run.venues)
  /\ \E ok \in BOOLEAN :
       /\ run' = [run EXCEPT !.pc = "done", !.result = "AllFailed",
                    !.saved = ok]
       /\ lastBookingFile' =
            save_json_file(lastBookingFile,
                           FailureOutcome(run.venues, now), ok)
  /\ UNCHANGED fvars
  /\ UNCHANGED <<now, ticks, oauth_sessions, nextSid, tokensFile, tokenCtr,
                 lastAuth, authHist, reqs>>

\* --------------------------------------------- /refresh-token (cron, manual)
RefreshToken ==
  /\ run.pc = "idle"
  /\ oauth_sessions' = cleanup_sessions(oauth_sessions, now)
  /\ \/ /\ RefreshCheck(tokensFile) # "ok"
        /\ UNCHANGED <<tokensFile, tokenCtr>>
     \/ /\ RefreshCheck(tokensFile) = "ok"
        /\ \/ /\ tokenCtr < MaxTokens
                 /\ \E body \in TokenBodies(now, tokenCtr + 1), ok \in BOOLEAN :
                      tokensFile' = RefreshStore(tokensFile, body, ok)
                 /\ tokenCtr' = tokenCtr + 1
              \/ UNCHANGED <<tokensFile, tokenCtr>>
  /\ UNCHANGED fvars
  /\ UNCHANGED <<now, ticks, nextSid, lastBookingFile, lastAuth, authHist,
                 run, reqs>>

\* -------------------------------------------------- /last-booking-status
\* (variant: the handler never reads the file)
LastBookingStatus_Placeholder(file) ==
  [NoOutcome EXCEPT !.status = <<"No bookings yet", "">>]

\* get_last_booking_status after the before_request sweep; the handler only
\* reads LAST_BOOKING_FILE
LastBookingStatus(file) ==
  IF file.kind = "json" THEN file.data
  ELSE [NoOutcome EXCEPT !.status = <<"No bookings yet", "">>]

GetLastBookingStatus ==
  /\ run.pc = "idle"
  /\ ~lastAuth.called
  /\ oauth_sessions' = cleanup_sessions(oauth_sessions, now)
  /\ UNCHANGED fvars
  /\ UNCHANGED <<now, ticks, nextSid, tokensFile, lastBookingFile, tokenCtr,
                 lastAuth, authHist, run, reqs>>

\* the auto-book response is delivered; the handler's locals are gone
AutoBookReturn ==
  /\ run.pc = "done"
  /\ run' = NoRun
  /\ reqs' = <<>>
  /\ UNCHANGED fvars
  /\ UNCHANGED <<now, ticks, oauth_sessions, nextSid, tokensFile,
                 lastBookingFile, tokenCtr, lastAuth, authHist>>

\* the complete-auth response is delivered
CompleteAuthReturn ==
  /\ lastAuth.called
  /\ lastAuth' = NoAuth
  /\ UNCHANGED fvars
  /\ UNCHANGED <<now, ticks, oauth_sessions, nextSid, tokensFile,
                 lastBookingFile, tokenCtr, authHist, run, reqs>>

\* ------------------------------------------------------------------- Spec
\* Login flow: sessions, code exchange, first credential
InitAuth == Init

NextAuth ==
  \/ Tick
  \/ StartAuth
  \/ CompleteAuth
  \/ CompleteAuthReturn
  \/ GetLastBookingStatus

SpecAuth == InitAuth /\ [][NextAuth]_vars

\* Booking flow, started from a credential file the login flow left behind
\* (saved by complete_auth StoredAges seconds before the initial state)
StoredAges == {600, 601, 700}
StoredCredentials ==
  {token_save_data(b, StartTime - a) :
     b \in [access_token : {1}, refresh_token : {1, NoToken},
            created_at : {NoVal}, expires_in : {ProvidedExpiresIn},
            token_type : {"Bearer"}],
     a \in StoredAges}

Next ==
  \/ RefreshToken
  \/ AutoBookStart
  \/ AutoBookLock
  \/ AutoBookBooking
  \/ AutoBookExhausted
  \/ AutoBookReturn

InitBook ==
  /\ now = StartTime
  /\ ticks = 0
  /\ oauth_sessions = <<>>
  /\ nextSid = 0
  /\ tokensFile \in {AbsentFile, CorruptFile}
                    \cup {[kind |-> "json", data |-> d] : d \in StoredCredentials}
  /\ lastBookingFile = AbsentOutcome
  /\ tokenCtr = 1
  /\ lastAuth = NoAuth
  /\ authHist = [s \in SessionIds \cup {NeverIssued, NoSid} |-> NoHist]
  /\ run = NoRun
  /\ reqs = <<>>
  /\ disk = EmptyDisk
  /\ saving = [p \in Savers |-> NoSave]
  /\ lastLoad = NoLoad
  /\ threads = [t \in Threads |-> NoThread]
  /\ exchanges = [s \in SessionIds |-> 0]
  /\ runs = [r \in Runners |-> NoRun]
  /\ rlog = <<>>

Spec == InitBook /\ [][Next]_vars

\* the booking flow when every upstream call is answered in the end: a run
\* inside the venue loop goes on (requests.post blocks, then returns or raises)
SpecLive ==
  /\ InitBook
  /\ [][Next]_vars
  /\ WF_vars(AutoBookLock)
  /\ WF_vars(AutoBookBooking)
  /\ WF_vars(AutoBookExhausted)

\* ------------------------------------- save_json_file, call by call
MaxSaves == 3

\* the record the n-th save is called with (a freshly issued credential)
SaveArg(n) ==
  token_save_data([access_token |-> n, refresh_token |-> n,
                   created_at |-> NoVal, expires_in |-> NoVal,
                   token_type |-> "Bearer"], StartTime)

FileFrame ==
  /\ UNCHANGED <<now, ticks, oauth_sessions, nextSid, tokensFile,
                 lastBookingFile, lastAuth, authHist, run, reqs>>
  /\ UNCHANGED cvars

\* open(temp_file, 'w'): truncates the file under that name, or creates it
TempOpen(d, sv) ==
  IF d.temp = NoIno
    THEN [ino |-> FreeIno(d, sv),
          disk |-> [d EXCEPT !.temp = FreeIno(d, sv)]]
    ELSE [ino |-> d.temp,
          disk |-> [d EXCEPT !.content[d.temp] = EmptyText]]

\* save_json_file up to open(temp_file, 'w')
SaveOpen ==
  \E p \in Savers :
    /\ saving[p].pc = "idle"
    /\ tokenCtr < MaxSaves
    /\ tokenCtr' = tokenCtr + 1
    /\ LET o == TempOpen(disk, saving)
           sv == [saving EXCEPT ![p] =
                    [pc |-> "open", data |-> SaveArg(tokenCtr + 1),
                     fd |-> o.ino, written |-> 0, result |-> "none"]]
       IN /\ saving' = sv
          /\ disk' = Collect(o.disk, sv)
    /\ UNCHANGED lastLoad
    /\ FileFrame

\* json.dump(data, f): the next write() of the text, then close
SaveWrite ==
  \E p \in Savers :
    /\ saving[p].pc = "open"
    /\ LET n == saving[p].written + 1
           sv == [saving EXCEPT ![p].written = n,
                                ![p].pc = IF n = 2 THEN "closed" ELSE "open",
                                ![p].fd = IF n = 2 THEN NoIno ELSE @]
           d == [disk EXCEPT !.content[saving[p].fd] =
                   WriteAt(@, WriteCall(saving[p].data, n))]
       IN /\ saving' = sv
          /\ disk' = Collect(d, sv)
    /\ UNCHANGED <<tokenCtr, lastLoad>>
    /\ FileFrame

\* os.rename(temp_file, filepath); FileNotFoundError if the name is gone
SaveRename ==
  \E p \in Savers :
    /\ saving[p].pc = "closed"
    /\ LET found == disk.temp # NoIno
           sv == [saving EXCEPT ![p].pc = "idle",
                                ![p].result = IF found THEN "true" ELSE "false"]
           d == IF found
                  THEN [disk EXCEPT !.target = disk.temp, !.temp = NoIno]
                  ELSE disk
       IN /\ saving' = sv
          /\ disk' = Collect(d, sv)
    /\ UNCHANGED <<tokenCtr, lastLoad>>
    /\ FileFrame

\* an exception while the temp file is open (a failed write): return False
SaveFail ==
  \E p \in Savers :
    /\ saving[p].pc = "open"
    /\ LET sv == [saving EXCEPT ![p].pc = "idle", ![p].fd = NoIno,
                                ![p].result = "false"]
       IN /\ saving' = sv
          /\ disk' = Collect(disk, sv)
    /\ UNCHANGED <<tokenCtr, lastLoad>>
    /\ FileFrame

\* load_json_file(filepath): open, json.load, close
LoadFile ==
  /\ lastLoad' = [done |-> TRUE, observed |-> FileAt(disk).kind,
                  result |-> load_json_file(FileAt(disk))]
  /\ UNCHANGED <<tokenCtr, disk, saving>>
  /\ FileFrame

InitFile == Init

NextFile ==
  \/ SaveOpen
  \/ SaveWrite
  \/ SaveRename
  \/ SaveFail
  \/ LoadFile

SpecFile == InitFile /\ [][NextFile]_vars

\* ----------------------- the session map, one handler statement at a time
MaxExchanges == 2

\* what the requests of this part leave alone
SessFrame ==
  UNCHANGED <<now, ticks, lastBookingFile, lastAuth, authHist, run, reqs,
              disk, saving, lastLoad, runs, rlog>>

\* the redirect URL the provider sends the browser of that session to
RedirectUrl(sid) == [kind |-> "ok", code |-> "ABC", state |-> generate_state(sid)]

\* start-auth requests that have not stored their session yet
PendingStarts ==
  Cardinality({t \in Threads : /\ threads[t].kind = "start"
                               /\ threads[t].pc \notin {"idle", "returned"}})
\* complete-auth requests for that session that may still send a token request
PendingCompletes(sid) ==
  Cardinality({t \in Threads : /\ threads[t].kind = "complete"
                               /\ threads[t].sid = sid
                               /\ threads[t].pc \in {"iterating",
                                    "deleting", "handler", "posting"}})
\* token requests answered with 200 whose handler has not taken its token yet
PendingTokens ==
  Cardinality({t \in Threads : /\ threads[t].pc = "answered"
                               /\ threads[t].status = 200})

\* the body of a 200 answer of the token endpoint carrying fresh token n
SessBody(n) ==
  [access_token |-> n, refresh_token |-> n, created_at |-> StartTime,
   expires_in |-> ProvidedExpiresIn, token_type |-> "Bearer"]

\* time passes: long enough for every stored session to expire
SessTick ==
  /\ ticks < MaxTicks
  /\ now' = now + SessionTimeout + 1
  /\ ticks' = ticks + 1
  /\ UNCHANGED <<oauth_sessions, nextSid, tokensFile, tokenCtr, threads,
                 exchanges>>
  /\ UNCHANGED <<lastBookingFile, lastAuth, authHist, run, reqs, disk, saving,
                 lastLoad, runs, rlog>>

\* a request is given a free thread; its before_request hook
\* cleanup_sessions starts to iterate oauth_sessions.items()
SweepBegin(t) ==
  /\ threads[t].pc \in {"idle", "returned"}
  /\ \E kind \in {"start", "complete"}, sid \in SessionIds :
       /\ kind = "start" => /\ sid = 1
                            /\ nextSid + PendingStarts < MaxSessions
       /\ kind = "complete" =>
            exchanges[sid] + PendingCompletes(sid) < MaxExchanges
       /\ threads' = [threads EXCEPT ![t] =
            [NoThread EXCEPT !.pc = "iterating", !.kind = kind,
               !.sid = IF kind = "complete" THEN sid ELSE NoSid,
               !.seen = Cardinality(DOMAIN oauth_sessions)]]
  /\ UNCHANGED <<oauth_sessions, nextSid, tokensFile, tokenCtr, exchanges>>
  /\ SessFrame

\* cleanup_sessions: the comprehension ends; a map whose size changed since
\* the iteration began raises RuntimeError
SweepCollect(t) ==
  /\ threads[t].pc = "iterating"
  /\ LET expired == {s \in DOMAIN oauth_sessions :
                       Expired(oauth_sessions[s].created_at, now)}
     IN threads' = [threads EXCEPT ![t] =
          IF Cardinality(DOMAIN oauth_sessions) # threads[t].seen
          THEN [@ EXCEPT !.pc = "returned", !.error = "RuntimeError",
                         !.result = "InternalError"]
          ELSE [@ EXCEPT !.pc = IF expired = {} THEN "handler"
                                ELSE "deleting",
                         !.expired = expired]]
  /\ UNCHANGED <<oauth_sessions, nextSid, tokensFile, tokenCtr, exchanges>>
  /\ SessFrame

\* cleanup_sessions: del oauth_sessions[sid] for the next expired id;
\* an id that is no longer in the map raises KeyError
SweepDelete(t) ==
  /\ threads[t].pc = "deleting"
  /\ LET sid == CHOOSE x \in threads[t].expired :
                  \A y \in threads[t].expired : x <= y
     IN IF sid \in DOMAIN oauth_sessions
        THEN /\ oauth_sessions' = DelSession(oauth_sessions, sid)
             /\ threads' = [threads EXCEPT ![t].expired = @ \ {sid},
                  ![t].pc = IF threads[t].expired = {sid} THEN "handler"
                            ELSE "deleting"]
        ELSE /\ UNCHANGED oauth_sessions
             /\ threads' = [threads EXCEPT ![t].pc = "returned",
                              ![t].error = "KeyError",
                              ![t].result = "InternalError"]
  /\ UNCHANGED <<nextSid, tokensFile, tokenCtr, exchanges>>
  /\ SessFrame

\* start_auth: oauth_sessions[session_id] = {...}
SessStart(t) ==
  /\ threads[t].pc = "handler"
  /\ threads[t].kind = "start"
  /\ nextSid' = nextSid + 1
  /\ oauth_sessions' = StartAuthStore(oauth_sessions, nextSid + 1, now)
  /\ threads' = [threads EXCEPT ![t].pc = "returned", ![t].sid = nextSid + 1,
                   ![t].result = "Started"]
  /\ UNCHANGED <<tokensFile, tokenCtr, exchanges>>
  /\ SessFrame

\* complete_auth: oauth_sessions.get(session_id) and the checks of the URL
SessLookup(t) ==
  /\ threads[t].pc = "handler"
  /\ threads[t].kind = "complete"
  /\ LET check == CompleteAuthCheck(oauth_sessions, threads[t].sid,
                                    RedirectUrl(threads[t].sid))
     IN threads' = [threads EXCEPT ![t] =
          IF check = "ok" THEN [@ EXCEPT !.pc = "posting"]
          ELSE [@ EXCEPT !.pc = "returned", !.result = check]]
  /\ UNCHANGED <<oauth_sessions, nextSid, tokensFile, tokenCtr, exchanges>>
  /\ SessFrame

\* complete_auth: requests.post to the token endpoint returns or raises
SessPost(t) ==
  /\ threads[t].pc = "posting"
  /\ exchanges[threads[t].sid] < MaxExchanges
  /\ \E status \in TokenStatuses \cup {Raised} :
       /\ status = 200 => tokenCtr + PendingTokens < MaxTokens
       /\ exchanges' = [exchanges EXCEPT ![threads[t].sid] =
                          @ + TokenRequests(status)]
       /\ threads' = [threads EXCEPT ![t] =
            IF status = Raised
            THEN [@ EXCEPT !.pc = "returned", !.status = status,
                           !.result = ExchangeResult(status, FALSE)]
            ELSE [@ EXCEPT !.pc = "answered", !.status = status]]
  /\ UNCHANGED <<oauth_sessions, nextSid, tokensFile, tokenCtr>>
  /\ SessFrame

\* complete_auth: del oauth_sessions[session_id] (KeyError when the id is no
\* longer in the map), then the tokens are saved and the response is built
SessFinish(t) ==
  /\ threads[t].pc = "answered"
  /\ IF threads[t].sid \notin DOMAIN oauth_sessions
     THEN /\ threads' = [threads EXCEPT ![t].pc = "returned",
                           ![t].error = "KeyError",
                           ![t].result = "InternalError"]
          /\ UNCHANGED <<oauth_sessions, tokensFile, tokenCtr>>
     ELSE /\ oauth_sessions' = DelSession(oauth_sessions, threads[t].sid)
          /\ IF threads[t].status = 200
             THEN \E ok \in BOOLEAN :
                    /\ tokensFile' = save_json_file(tokensFile,
                         token_save_data(SessBody(tokenCtr + 1), now), ok)
                    /\ tokenCtr' = tokenCtr + 1
                    /\ threads' = [threads EXCEPT ![t].pc = "returned",
                         ![t].result = ExchangeResult(200, ok),
                         ![t].saved = ok,
                         ![t].token = SessBody(tokenCtr + 1).access_token]
             ELSE /\ threads' = [threads EXCEPT ![t].pc = "returned",
                       ![t].result = ExchangeResult(threads[t].status, FALSE)]
                  /\ UNCHANGED <<tokensFile, tokenCtr>>
  /\ UNCHANGED <<nextSid, exchanges>>
  /\ SessFrame

InitSess == Init

NextSess ==
  \/ SessTick
  \/ \E t \in Threads : SweepBegin(t)
  \/ \E t \in Threads : SweepCollect(t)
  \/ \E t \in Threads : SweepDelete(t)
  \/ \E t \in Threads : SessStart(t)
  \/ \E t \in Threads : SessLookup(t)
  \/ \E t \in Threads : SessPost(t)
  \/ \E t \in Threads : SessFinish(t)

SpecSess == InitSess /\ [][NextSess]_vars

\* ---------------------------------------------------------- /save-tokens
\* a token pasted in by hand, not one the provider issued in this history
ManualToken == MaxTokens + 1

\* save_tokens: the record built from the request body
ManualRecord(access_token, refresh_token, t) ==
  [access_token |-> access_token, refresh_token |-> refresh_token,
   created_at |-> t, expires_in |-> DefaultExpiresIn, token_type |-> "None"]

\* (variant: the tokens of the request body are not checked)
SaveTokensAccepted_Any(access_token, refresh_token) == TRUE

\* save_tokens: 400 "Missing tokens" unless both tokens are given
SaveTokensAccepted(access_token, refresh_token) ==
  access_token # NoToken /\ refresh_token # NoToken

\* POST /save-tokens after the before_request sweep
SaveTokens ==
  /\ run.pc = "idle"
  /\ ~lastAuth.called
  /\ oauth_sessions' = cleanup_sessions(oauth_sessions, now)
  /\ \E access_token \in {NoToken, ManualToken},
        refresh_token \in {NoToken, ManualToken}, ok \in BOOLEAN :
       tokensFile' =
         IF ~SaveTokensAccepted(access_token, refresh_token) THEN tokensFile
         ELSE save_json_file(tokensFile,
                ManualRecord(access_token, refresh_token, now), ok)
  /\ UNCHANGED fvars
  /\ UNCHANGED <<now, ticks, nextSid, lastBookingFile, tokenCtr, lastAuth,
                 authHist, run, reqs>>

\* ------------------------------------------- auto_book calls that overlap
\* what the callers of this part send and what the booking API answers
RunVenueLists == {<<"A">>, <<"A", "B">>}
RunStatuses   == {200, 409}
\* response.text of the answers given with that status
RunTexts(status) == IF status = 409 THEN {"full"} ELSE {""}

RunFrame ==
  UNCHANGED <<now, ticks, nextSid, tokensFile, tokenCtr, lastAuth, authHist,
              run, reqs, disk, saving, lastLoad, threads, exchanges>>

\* (variant: a call waits while another call is inside the venue loop)
RunBlocked_Exclusive(rs, r) ==
  \E o \in Runners \ {r} : rs[o].pc \in {"venues", "locked"}

\* auto_book: is the call held back by another call in progress; the handler
\* takes no lock and keeps no record of a call in progress
RunBlocked(rs, r) == FALSE

\* auto_book up to the venue loop, with a record that needs no refresh
RunStart(r) ==
  /\ runs[r].pc = "idle"
  /\ ~RunBlocked(runs, r)
  /\ \E venues \in RunVenueLists :
       LET n == NewRun(venues, NoDateTime)
       IN /\ ~n.stale
          /\ runs' = [runs EXCEPT ![r] =
               IF ~Loaded(tokensFile)
               THEN [n EXCEPT !.pc = "done", !.result = "Unauthenticated"]
               ELSE EnterLoop(n, load_json_file(tokensFile).access_token)]
  /\ oauth_sessions' = cleanup_sessions(oauth_sessions, now)
  /\ UNCHANGED <<rlog, lastBookingFile>>
  /\ RunFrame

\* book_poolside step 1 of one of the calls
RunLock(r) ==
  /\ runs[r].pc = "venues"
  /\ runs[r].idx <= Len(runs[r].venues)
  /\ ~RunBlocked(runs, r)
  /\ \E status \in RunStatuses, id \in LockIds :
     \E text \in RunTexts(status) :
       LET venue_id == VenueAt(runs[r])
           req == [LockReq(runs[r], venue_id) EXCEPT !.status = status,
                     !.lock_id = IF LockOk(status) THEN id ELSE NoLock,
                     !.has_token = LockOk(status), !.text = text]
       IN /\ rlog' = Append(rlog, [runner |-> r, req |-> req])
          /\ runs' = [runs EXCEPT ![r] =
               IF ~LockOk(status)
               THEN [AfterFailedVenue(@) EXCEPT
                       !.returned = LockFailed(status, text)]
               ELSE [@ EXCEPT !.pc = "locked", !.lock_id = id]]
  /\ UNCHANGED <<oauth_sessions, lastBookingFile>>
  /\ RunFrame

\* book_poolside step 2 of one of the calls
RunBooking(r) ==
  /\ runs[r].pc = "locked"
  /\ ~RunBlocked(runs, r)
  /\ \E status \in RunStatuses, ok \in BOOLEAN :
     \E text \in RunTexts(status) :
       LET venue_id == VenueAt(runs[r])
           req == [BookingReq(runs[r], venue_id) EXCEPT !.status = status,
                                                       !.text = text]
       IN /\ rlog' = Append(rlog, [runner |-> r, req |-> req])
          /\ IF BookingOk(status)
             THEN /\ runs' = [runs EXCEPT ![r] =
                       [AfterBooked(@, venue_id, ok) EXCEPT
                          !.returned = Booked(status)]]
                  /\ lastBookingFile' =
                       save_json_file(lastBookingFile,
                         SuccessOutcome(venue_id, runs[r].date_time, now), ok)
             ELSE /\ runs' = [runs EXCEPT ![r] =
                       [AfterFailedVenue(@) EXCEPT
                          !.returned = BookingFailed(status, text)]]
                  /\ UNCHANGED lastBookingFile
  /\ UNCHANGED oauth_sessions
  /\ RunFrame

\* auto_book after the loop of one of the calls: every venue failed
RunExhausted(r) ==
  /\ runs[r].pc = "venues"
  /\ runs[r].idx > Len(runs[r].venues)
  /\ \E ok \in BOOLEAN :
       /\ runs' = [runs EXCEPT ![r] =
            [@ EXCEPT !.pc = "done", !.result = "AllFailed", !.saved = ok]]
       /\ lastBookingFile' =
            save_json_file(lastBookingFile,
                           FailureOutcome(runs[r].venues, now), ok)
  /\ UNCHANGED <<oauth_sessions, rlog>>
  /\ RunFrame

\* the stored record is one that auto_book uses without a refresh
InitRuns ==
  /\ InitBook
  /\ Loaded(tokensFile) => ~Stale(load_json_file(tokensFile), now)

NextRuns ==
  \/ \E r \in Runners : RunStart(r)
  \/ \E r \in Runners : RunLock(r)
  \/ \E r \in Runners : RunBooking(r)
  \/ \E r \in Runners : RunExhausted(r)

SpecRuns == InitRuns /\ [][NextRuns]_vars

\* ------------------------- the credential file under every one of its writers
\* login, refresh and manual save handled one request at a time, followed by
\* one auto_book call that needs no refresh
InitStore == Init

\* no auto_book call has begun
NoRunYet == runs[1].pc = "idle"

NextStore ==
  \/ NoRunYet /\ StartAuth
  \/ NoRunYet /\ CompleteAuth
  \/ CompleteAuthReturn
  \/ NoRunYet /\ ~lastAuth.called /\ RefreshToken
  \/ NoRunYet /\ SaveTokens
  \/ ~lastAuth.called /\ RunStart(1)
  \/ RunLock(1)
  \/ RunBooking(1)
  \/ RunExhausted(1)

SpecStore == InitStore /\ [][NextStore]_vars

\* ===================================================== venue fallback (C1..C3)
IsLock(q)    == q.kind = "lock"
IsBooking(q) == q.kind = "booking"
IsVenueReq(q) == q.kind \in {"lock", "booking"}

\* the lock requests of the run, in sending order
LockReqs == SelectSeq(reqs, IsLock)

\* how the venue attempt that started with request i of the log ended
AttemptOutcome(i) ==
  IF reqs[i].status = Raised THEN "Error"
  ELSE IF reqs[i].status \notin {200, 201} THEN "LockFailed"
  ELSE IF i < Len(reqs) /\ IsBooking(reqs[i + 1])
  THEN (IF reqs[i + 1].status = Raised THEN "Error"
        ELSE IF reqs[i + 1].status \in {200, 201} THEN "Booked"
        ELSE "BookingFailed")
  ELSE IF i = Len(reqs) /\ run.pc = "locked" THEN "InProgress"
  ELSE "Error"

LockIndexes == {i \in 1..Len(reqs) : IsLock(reqs[i])}

\* C1: the k-th venue attempt of a run is for the k-th venue of the list; an
\* attempt starts only after every earlier one has ended without a booking;
\* a successful booking is the last request of its run, the run returns
\* success for that venue, and no request for a later venue exists.
C1_FirstSuccessStops ==
  /\ Len(LockReqs) <= Len(run.venues)
  /\ \A k \in 1..Len(LockReqs) : LockReqs[k].venue = run.venues[k]
  /\ \A i \in LockIndexes :
       i < Len(reqs) /\ (\E j \in LockIndexes : j > i)
         => AttemptOutcome(i) \in {"LockFailed", "BookingFailed"}
  /\ \A i \in 1..Len(reqs) :
       IsBooking(reqs[i]) /\ reqs[i].status \in {200, 201}
         => /\ i = Len(reqs)
            /\ run.pc = "done" /\ run.result = "Booked"
            /\ run.venue = reqs[i].venue
            /\ run.venue = run.venues[Len(LockReqs)]
  /\ run.result = "Booked"
       => /\ Len(reqs) >= 2
          /\ IsBooking(reqs[Len(reqs)])
          /\ reqs[Len(reqs)].status \in {200, 201}

\* LockFailed at "A", then Booked at "B"
C1_Witness ==
  /\ run.result = "Booked"
  /\ run.venues = <<"A", "B">>
  /\ run.venue = "B"
  /\ Len(LockReqs) = 2
  /\ AttemptOutcome(1) = "LockFailed"

\* C2: a run ends with the all-venues-failed payload exactly when every list
\* entry was attempted once, in order, and each attempt ended LockFailed or
\* BookingFailed; the Outcome record it saves has a status containing
\* "Failed" and venues_tried equal to the input list.
VenuesOf(q) == [k \in 1..Len(q) |-> q[k].venue]

AllAttemptsFailed ==
  /\ VenuesOf(LockReqs) = run.venues
  /\ \A i \in LockIndexes :
       AttemptOutcome(i) \in {"LockFailed", "BookingFailed"}

C2_AllFailedOutcome ==
  /\ run.pc = "done" /\ run.idx >= 1
       => (run.result = "AllFailed" <=> AllAttemptsFailed)
  /\ run.result = "AllFailed" => run.pc = "done" /\ run.idx >= 1
  /\ run.result = "AllFailed" /\ run.saved
       => /\ lastBookingFile.kind = "json"
          /\ lastBookingFile.data.status[1] = "Failed: No venues available"
          /\ lastBookingFile.data.has_tried
          /\ lastBookingFile.data.venues_tried = run.venues

\* LockFailed at "A", BookingFailed at "B"
C2_Witness ==
  /\ run.result = "AllFailed" /\ run.saved
  /\ run.venues = <<"A", "B">>
  /\ Len(reqs) = 3
  /\ AttemptOutcome(1) = "LockFailed"
  /\ AttemptOutcome(2) = "BookingFailed"

\* C3: every booking request directly follows the lock request of the same
\* venue attempt, that lock request was answered with success, and the
\* booking names the lock id of that answer; a failed lock request is never
\* followed by a booking request.
C3_BookingAfterLock ==
  /\ \A i \in 1..Len(reqs) :
       IsBooking(reqs[i])
         => /\ i > 1
            /\ IsLock(reqs[i - 1])
            /\ reqs[i - 1].venue = reqs[i].venue
            /\ reqs[i - 1].status \in {200, 201}
            /\ reqs[i].lock_id = reqs[i - 1].lock_id
  /\ \A i \in LockIndexes :
       reqs[i].status \notin {200, 201} /\ i < Len(reqs)
         => IsLock(reqs[i + 1])

\* a booking request naming lock 2, sent after lock 1 was used at the
\* venue before
C3_Witness ==
  /\ Len(reqs) = 4
  /\ IsBooking(reqs[2]) /\ reqs[2].lock_id = 1
  /\ IsBooking(reqs[4]) /\ reqs[4].lock_id = 2

\* ================================================ credential freshness (C4..C6)
HasRefresh == \E i \in 1..Len(reqs) : reqs[i].kind = "refresh"
VenueReqIndexes == {i \in 1..Len(reqs) : IsVenueReq(reqs[i])}

SpecStale(rec, t) ==
  LET c == IF rec.created_at = NoVal THEN 0 ELSE rec.created_at
      e == IF rec.expires_in = NoVal THEN 7200 ELSE rec.expires_in
  IN t > c + e - 300

\* C5 as stated: a refresh request is sent if and only if the record is stale
C5_Original ==
  run.pc # "idle" /\ run.loaded.kind = "json"
    => (HasRefresh <=> SpecStale(run.loaded.data, run.started))

\* C5: a refresh request is sent, before any lock request and once, if and
\* only if the loaded record is stale and carries a refresh token; a stale
\* record without a refresh token ends the run with ReauthRequired and no
\* request at all; when the record is not stale, the stored file is left as
\* it was and every request carries the stored access token.
C5_RefreshIffStaleWithRefreshToken ==
  run.pc # "idle" /\ run.loaded.kind = "json"
    => LET rec == run.loaded.data
           stale == SpecStale(rec, run.started)
       IN /\ HasRefresh <=> (stale /\ rec.refresh_token # NoToken)
          /\ HasRefresh => /\ reqs[1].kind = "refresh"
                           /\ \A i \in 2..Len(reqs) : reqs[i].kind # "refresh"
          /\ stale /\ rec.refresh_token = NoToken
               => run.result = "ReauthRequired" /\ reqs = <<>>
          /\ ~stale => /\ tokensFile = run.loaded
                       /\ run.access_token = rec.access_token
                       /\ \A i \in 1..Len(reqs) :
                            reqs[i].token = rec.access_token

\* now = created_at + expires_in - 200: refreshed, then a lock request
C5_Witness ==
  /\ run.pc # "idle" /\ run.loaded.kind = "json"
  /\ run.started = run.loaded.data.created_at
                     + run.loaded.data.expires_in - 200
  /\ Len(reqs) >= 2
  /\ reqs[1].kind = "refresh" /\ reqs[2].kind = "lock"

\* C6: when the credential file is missing or unreadable the run ends with
\* Unauthenticated, and no refresh, lock or booking request is sent.
C6_AbsentIsUnauthenticated ==
  run.pc # "idle" /\ run.loaded.kind # "json"
    => /\ run.pc = "done"
       /\ run.result = "Unauthenticated"
       /\ reqs = <<>>
       /\ tokensFile = run.loaded

C6_Witness ==
  /\ run.loaded = CorruptFile
  /\ run.result = "Unauthenticated"

\* ======================================================= PKCE sessions (C7..C10)
\* C7 as stated: after any complete-auth call with a session id, every later
\* call with that id fails with InvalidSession
C7_Original ==
  lastAuth.called /\ lastAuth.calledBefore /\ lastAuth.url.kind = "ok"
    => lastAuth.result = "InvalidSession"

\* C7: once the provider has answered the token request of a complete-auth
\* call (whatever the status), every later call with the same session id finds
\* no session: it sends no token request and fails with InvalidSession.  A
\* call that ends before the exchange, or whose token request raises, leaves
\* the session in the map.
C7_SingleUseOnceAnswered ==
  /\ lastAuth.called /\ lastAuth.answeredBefore
       => /\ ~lastAuth.known
          /\ ~lastAuth.sent
          /\ lastAuth.url.kind # "empty" => lastAuth.result = "InvalidSession"
  /\ lastAuth.called
       /\ lastAuth.result \in {"MissingCode", "StateMismatch", "ParseError",
                               "InternalError"}
       => lastAuth.sid \in DOMAIN oauth_sessions
  /\ lastAuth.called /\ lastAuth.sent /\ lastAuth.status # Raised
       => lastAuth.sid \notin DOMAIN oauth_sessions

\* a second call with the right URL, after the provider answered the first
C7_Witness ==
  /\ lastAuth.called /\ lastAuth.answeredBefore
  /\ lastAuth.url.kind = "ok" /\ lastAuth.url.code = "ABC"
  /\ lastAuth.url.state = generate_state(lastAuth.sid)
  /\ lastAuth.result = "InvalidSession"

\* C8 as stated: a known session and a differing or missing state always
\* give StateMismatch
C8_Original ==
  lastAuth.called /\ lastAuth.known /\ lastAuth.url.kind = "ok"
    /\ lastAuth.url.state # lastAuth.expected
    => lastAuth.result = "StateMismatch" /\ ~lastAuth.sent

\* C8: with a known session and a redirect URL whose state differs from the
\* stored state or is missing, no token request is sent and the call fails:
\* with StateMismatch when the URL carries a code, with MissingCode when it
\* carries none.
C8_StateMismatchNoExchange ==
  lastAuth.called /\ lastAuth.known /\ lastAuth.url.state # lastAuth.expected
    => /\ ~lastAuth.sent
       /\ lastAuth.result \in {"StateMismatch", "MissingCode", "ParseError",
                               "MissingParams"}
       /\ lastAuth.url.kind = "ok" /\ lastAuth.url.code # NoCode
            => lastAuth.result = "StateMismatch"
       /\ lastAuth.url.kind = "ok" /\ lastAuth.url.code = NoCode
            => lastAuth.result = "MissingCode"

\* session presented with a code and the state of another session
C8_Witness ==
  /\ lastAuth.called /\ lastAuth.known
  /\ lastAuth.url.kind = "ok" /\ lastAuth.url.code = "ABC"
  /\ lastAuth.url.state \notin {lastAuth.expected, NoState}
  /\ lastAuth.result = "StateMismatch"

\* C9: a complete-auth request that arrives when its session is older than
\* 600 seconds finds the session swept: InvalidSession, no token request.
C9_ExpiredNeverUsable ==
  lastAuth.called /\ lastAuth.age > 600
    => /\ ~lastAuth.known
       /\ ~lastAuth.sent
       /\ lastAuth.url.kind # "empty" => lastAuth.result = "InvalidSession"

\* age 601, right code and state
C9_Witness ==
  /\ lastAuth.called /\ lastAuth.age = 601
  /\ lastAuth.url.kind = "ok" /\ lastAuth.url.code = "ABC"
  /\ lastAuth.url.state = generate_state(lastAuth.sid)
  /\ lastAuth.result = "InvalidSession"

\* C10: the sweep that precedes a request removes every session older than
\* 600 seconds; a session leaves the map only that way or by the exchange of
\* its own complete-auth call; sessions that stay are unchanged.
RequestStep == now' = now /\ ~lastAuth.called

C10_SweepExact ==
  [][ /\ \A s \in DOMAIN oauth_sessions \cap DOMAIN oauth_sessions' :
           oauth_sessions'[s] = oauth_sessions[s]
      /\ \A s \in DOMAIN oauth_sessions \ DOMAIN oauth_sessions' :
           \/ now - oauth_sessions[s].created_at > 600
           \/ ~lastAuth.called /\ lastAuth'.sent /\ lastAuth'.sid = s
      /\ RequestStep =>
           \A s \in DOMAIN oauth_sessions :
             now - oauth_sessions[s].created_at > 600
               => s \notin DOMAIN oauth_sessions'
    ]_vars

\* session 1 was swept unused; session 2 survived a sweep at age 600
C10_Witness ==
  /\ nextSid = 2
  /\ DOMAIN oauth_sessions = {2}
  /\ ~authHist[1].answered
  /\ lastAuth.called /\ lastAuth.sid = 2 /\ lastAuth.known
  /\ lastAuth.age = 600
  /\ now - oauth_sessions[2].created_at = 600

\* ============================================================ C11: PKCE binding
\* C11: the token request of a complete-auth call carries the verifier whose
\* S256 challenge was placed, together with the state the redirect URL
\* returned, in the authorization URL start_auth built for that session id,
\* and the code parameter of the supplied redirect URL; it matches the
\* authorization URL of no other session.
C11_VerifierOfOwnSession ==
  lastAuth.sent
    => LET u == authHist[lastAuth.sid].auth_url
       IN /\ u.code_challenge_method = "S256"
          /\ generate_code_challenge(lastAuth.verifier) = u.code_challenge
          /\ lastAuth.url.state = u.state
          /\ lastAuth.code = lastAuth.url.code
          /\ lastAuth.code # NoCode
          /\ \A s \in (1..nextSid) \ {lastAuth.sid} :
               /\ authHist[s].auth_url.code_challenge
                    # generate_code_challenge(lastAuth.verifier)
               /\ authHist[s].auth_url.state # lastAuth.url.state

\* session 1 exchanged while session 2 is live
C11_Witness ==
  /\ lastAuth.sent /\ lastAuth.sid = 1 /\ lastAuth.code = "XYZ"
  /\ nextSid = 2 /\ 2 \in DOMAIN oauth_sessions

\* ===================================================== C12: atomic replace
\* the arguments of the save calls made so far
SaveArgs == {SaveArg(n) : n \in 1..tokenCtr}

\* C12: whatever the interleaving of saves and loads on the path (two saves
\* overlapping included), a load never observes a partially written file:
\* it returns absent because no file is there, or a record that is exactly
\* the complete argument of some save call.
C12_LoadNeverPartial ==
  lastLoad.done
    => /\ lastLoad.observed # "corrupt"
       /\ lastLoad.observed = "json" => lastLoad.result \in SaveArgs

AttemptReturned ==
  /\ run.pc \in {"venues", "done"}
  /\ reqs # <<>>
  /\ IsVenueReq(reqs[Len(reqs)])

\* the attempt's outcome against the statuses of its answers, Success being
\* the statuses that count as success
OutcomeMatches(Success) ==
  AttemptReturned
    => LET n == Len(reqs)
           last == reqs[n]
       IN /\ run.returned.kind = "Booked"
               <=> /\ IsBooking(last) /\ last.status \in Success
                   /\ n >= 2 /\ IsLock(reqs[n - 1])
                   /\ reqs[n - 1].status \in Success
          /\ IsLock(last) /\ last.status \notin Success \cup {Raised}
               => run.returned = LockFailed(last.status, last.text)
          /\ IsBooking(last) /\ last.status \notin Success \cup {Raised}
               => run.returned = BookingFailed(last.status, last.text)

\* C15 as stated: Booked if and only if both answers are 2xx, every non-2xx
\* lock answer gives LockFailed, every non-2xx booking answer BookingFailed
C15_Original == OutcomeMatches(200..299)

\* C15: a venue attempt ends Booked if and only if both the lock answer and
\* the booking answer carry status 200 or 201; a lock answer with any other
\* status ends it LockFailed and a booking answer with any other status ends
\* it BookingFailed, each with the upstream status and body attached.
C15_BookedIff200Or201 == OutcomeMatches({200, 201})

\* a booking answered 204 ended the attempt BookingFailed
C15_Witness ==
  /\ AttemptReturned
  /\ run.returned = BookingFailed(204, "")
  /\ reqs[Len(reqs) - 1].status = 201

\* ===================================================== C16: one lock, one booking
\* venue attempts started so far in the run
AttemptsStarted ==
  IF run.pc = "venues" \/ run.result = "AllFailed" THEN run.idx - 1
  ELSE IF run.pc = "locked" \/ run.result \in {"Booked", "InternalError"}
       THEN run.idx
  ELSE 0

\* C16: a venue attempt sends at most one lock request and at most one
\* booking request: the run has sent one lock request per attempt started, a
\* booking request only directly after the lock request of its attempt, and
\* the request after a failed lock, if any, is the lock of the next venue.
C16_OneLockOneBooking ==
  /\ run.idx >= 1 => Len(LockReqs) = AttemptsStarted
  /\ \A i \in VenueReqIndexes :
       /\ IsBooking(reqs[i])
            => /\ i > 1 /\ IsLock(reqs[i - 1]) /\ LockOk(reqs[i - 1].status)
               /\ reqs[i - 1].venue = reqs[i].venue
       /\ IsLock(reqs[i]) /\ ~LockOk(reqs[i].status) /\ i < Len(reqs)
            => /\ IsLock(reqs[i + 1])
               /\ \E k \in 1..(Len(run.venues) - 1) :
                    /\ Len(SelectSeq(SubSeq(reqs, 1, i), IsLock)) = k
                    /\ reqs[i].venue = run.venues[k]
                    /\ reqs[i + 1].venue = run.venues[k + 1]

\* a failed lock at the first venue, then a lock and a failed booking at the
\* second, and the run is over
C16_Witness ==
  /\ run.result = "AllFailed" /\ Len(run.venues) = 2
  /\ Len(LockReqs) = 2 /\ Len(SelectSeq(reqs, IsBooking)) = 1
  /\ ~LockOk(LockReqs[1].status)
  /\ run.venues[1] = run.venues[2]

\* ===================================================== C17: malformed lock
\* a lock answer with a success status whose body lacks data.id or the token
MalformedLock(q) ==
  IsLock(q) /\ LockOk(q.status) /\ (q.lock_id = NoLock \/ ~q.has_token)

\* C17: when the lock answer has a success status but its body lacks the
\* lock id or the lock token, the attempt ends MalformedLockResponse and no
\* booking request is sent for it.
C17_MalformedLockNoBooking ==
  \A i \in LockIndexes :
    MalformedLock(reqs[i])
      => /\ i < Len(reqs) => ~IsBooking(reqs[i + 1])
         /\ i = Len(reqs) /\ run.pc # "locked"
              => run.returned.kind = "MalformedLockResponse"

\* ===================================================== C18: containment
\* C18: however a venue attempt fails, the failure stays with that venue:
\* a run that entered the venue loop ends with a booking or with the
\* all-venues-failed outcome, and unless it booked, every venue of the list
\* was attempted.
C18_FailuresContained ==
  run.pc = "done" /\ run.idx >= 1
    => /\ run.result \in {"Booked", "AllFailed"}
       /\ run.result # "Booked" => Len(LockReqs) = Len(run.venues)

\* ===================================================== C19: no compensation
\* a booking answer that ends the attempt BookingFailed
FailedBooking(q) ==
  IsBooking(q) /\ q.status # Raised /\ ~BookingOk(q.status)

\* C19: the only requests a run sends are refresh, lock and booking
\* requests, so nothing releases a lock; after a failed booking the next
\* request, if any, is the lock request of the next venue, and until then the
\* run is back in the venue loop or has ended with all venues failed.
C19_NoCompensation ==
  /\ \A i \in 1..Len(reqs) : reqs[i].kind \in {"refresh", "lock", "booking"}
  /\ \A i \in VenueReqIndexes :
       FailedBooking(reqs[i])
         => LET k == Len(SelectSeq(SubSeq(reqs, 1, i), IsLock))
            IN /\ i < Len(reqs)
                    => /\ IsLock(reqs[i + 1])
                       /\ k < Len(run.venues)
                       /\ reqs[i + 1].venue = run.venues[k + 1]
               /\ i = Len(reqs)
                    => run.pc = "venues" \/ run.result = "AllFailed"

\* the lock of the first venue was never released and the second venue holds
\* a lock of its own
C19_Witness ==
  /\ Len(reqs) >= 3
  /\ IsLock(reqs[Len(reqs) - 2]) /\ reqs[Len(reqs) - 2].lock_id = 1
  /\ FailedBooking(reqs[Len(reqs) - 1])
  /\ IsLock(reqs[Len(reqs)]) /\ reqs[Len(reqs)].lock_id = 2
  /\ run.pc = "locked" /\ run.idx = 2

\* ===================================================== C20: outcome overwritten
\* the latest run ended with an outcome that auto_book persists, and did so
PersistedOutcome(r) == r.result \in {"Booked", "AllFailed"} /\ r.saved

\* the record last-booking-status returns is the record of run r
RecordOf(r, file) ==
  LET rec == LastBookingStatus(file)
  IN IF r.result = "Booked"
     THEN /\ rec.status = <<"Success: Booked", r.venue>>
          /\ rec.venue = r.venue /\ rec.booking_time = r.date_time
          /\ rec.time = now \div 60
     ELSE /\ rec.status = <<"Failed: No venues available", "">>
          /\ rec.venues_tried = r.venues
          /\ rec.time = now \div 60

\* C20 as stated: once a run has finished, whatever its result, the record
\* returned by last-booking-status is that run's
C20_Original ==
  run.pc = "done" => lastBookingFile.kind = "json" /\ RecordOf(run, lastBookingFile)

\* C20: a run that ends with a booking or with all venues failed, and whose
\* save succeeds, overwrites the Outcome record: last-booking-status then
\* returns that run's record. Nothing else writes the record: a run that ends
\* Unauthenticated or ReauthRequired, or is aborted by an exception, leaves
\* the previous record (or the absence of one) in place, and while no record
\* was ever written last-booking-status returns the placeholder.
C20_OverwrittenByOutcomeRuns ==
  [][/\ run.pc # "done" /\ run'.pc = "done" /\ PersistedOutcome(run')
          => lastBookingFile'.kind = "json" /\ RecordOf(run', lastBookingFile')
     /\ lastBookingFile' # lastBookingFile
          => run.pc # "done" /\ run'.pc = "done" /\ PersistedOutcome(run')
     /\ lastBookingFile'.kind = "absent"
          => LastBookingStatus(lastBookingFile').status
               = <<"No bookings yet", "">>]_vars

\* a run that tried two venues in vain wrote the record that is returned
C20_Witness ==
  /\ run.pc = "done" /\ run.result = "AllFailed" /\ run.saved
  /\ Len(run.venues) = 2
  /\ LastBookingStatus(lastBookingFile).venues_tried = run.venues
  /\ ~LastBookingStatus(lastBookingFile).has_venue

\* ===================================================== C21: outcome shape
\* a success record: venue and booking_time, no venues_tried
SuccessShape(rec) ==
  /\ rec.has_venue /\ ~rec.has_tried
  /\ rec.status = <<"Success: Booked", rec.venue>>
  /\ rec.venue \in VenueIds
  /\ rec.booking_time # NoDateTime
  /\ rec.venues_tried = <<>>

\* a failure record: venues_tried, no venue and no booking_time
FailureShape(rec) ==
  /\ rec.has_tried /\ ~rec.has_venue
  /\ rec.status = <<"Failed: No venues available", "">>
  /\ rec.venue = "None" /\ rec.booking_time = NoDateTime

\* C21: every persisted Outcome record is a success record (venue and
\* booking_time, no venues_tried) or a failure record (venues_tried, no venue,
\* no booking_time); the success record a run writes names the venue of the
\* booking request that succeeded and the date_time that request carried.
C21_OutcomeWellFormed ==
  /\ lastBookingFile.kind = "json"
       => SuccessShape(lastBookingFile.data) \/ FailureShape(lastBookingFile.data)
  /\ run.pc = "done" /\ run.result = "Booked" /\ run.saved
       => LET last == reqs[Len(reqs)]
          IN /\ IsBooking(last) /\ BookingOk(last.status)
             /\ SuccessShape(lastBookingFile.data)
             /\ lastBookingFile.data.venue = last.venue
             /\ lastBookingFile.data.booking_time = last.date_time
  /\ run.pc = "done" /\ run.result = "AllFailed" /\ run.saved
       => /\ FailureShape(lastBookingFile.data)
          /\ lastBookingFile.data.venues_tried = run.venues

\* the second venue was booked for the default date and the record written
C21_Witness ==
  /\ run.pc = "done" /\ run.result = "Booked" /\ run.saved
  /\ run.idx = 2 /\ run.venues[1] # run.venues[2]
  /\ lastBookingFile.data.venue = run.venues[2]
  /\ lastBookingFile.data.booking_time = DefaultDateTime(run.started)

\* ===================================================== C22: save fails on exchange
\* C22: when the provider answers the code exchange with 200 and the save of
\* the record fails, complete_auth still succeeds and returns the credential
\* the provider just issued, with tokens_saved false; the credential file is
\* not the new record.
C22_SaveFailureFlagged ==
  lastAuth.called /\ lastAuth.status = 200
    => /\ lastAuth.result = "Success"
       /\ lastAuth.token = tokenCtr /\ lastAuth.token # NoToken
       /\ lastAuth.saved
            <=> Loaded(tokensFile)
                  /\ load_json_file(tokensFile).access_token = lastAuth.token

\* the exchange answered 200 and the save failed
C22_Witness ==
  /\ lastAuth.called /\ lastAuth.status = 200 /\ ~lastAuth.saved
  /\ lastAuth.result = "Success" /\ lastAuth.token = 1
  /\ ~Loaded(tokensFile)

\* ===================================================== C23: exchange refused
\* C23: when the provider answers the code exchange with a status other than
\* 200, complete_auth fails with TokenExchangeFailed carrying the upstream
\* status and body, one token request was made, and the stored credential
\* record is what it was before the call.
C23_ExchangeRefused ==
  [][(~lastAuth.called /\ lastAuth'.called /\ lastAuth'.sent
        /\ lastAuth'.status \notin {200, Raised})
       => /\ lastAuth'.result = "TokenExchangeFailed"
          /\ lastAuth'.error.status = lastAuth'.status
          /\ lastAuth'.error.response = lastAuth'.text
          /\ lastAuth'.requests = 1
          /\ ~lastAuth'.saved
          /\ tokensFile' = tokensFile /\ tokenCtr' = tokenCtr]_vars

\* a second login was refused with 401 while the first login's record is stored
C23_Witness ==
  /\ lastAuth.called /\ lastAuth.sent /\ lastAuth.status = 401
  /\ lastAuth.error.response = "invalid_grant"
  /\ Loaded(tokensFile) /\ load_json_file(tokensFile).access_token = 1

\* ===================================================== C24: refresh mapping
\* C24: after a successful refresh the stored record is the provider
\* response mapped as in the code exchange: the new tokens, created_at (the
\* current time when the response has none), expires_in (7200 when the
\* response has none) and token_type; it has replaced the previous record.
C24_RefreshNormalises ==
  run.pc # "idle" /\ HasRefresh /\ run.refresh_code = 200
    => /\ Loaded(tokensFile)
       /\ LET rec == load_json_file(tokensFile)
          IN /\ rec.access_token = tokenCtr
             /\ rec.access_token # run.loaded.data.access_token
             /\ rec.created_at = run.started
             /\ rec.expires_in \in {ProvidedExpiresIn, DefaultExpiresIn}
             /\ rec.token_type = "Bearer"

\* ===================================================== C29: refresh, save fails
\* the provider answered the run's refresh with 200 and the save failed
RefreshSaveFailed ==
  /\ run.pc # "idle" /\ HasRefresh
  /\ reqs[1].status = 200
  /\ tokensFile = run.loaded

\* C29 as stated: the run still gets the fresh access token and goes on to
\* the venues instead of failing with ReauthRequired
C29_Original ==
  RefreshSaveFailed
    => /\ run.result # "ReauthRequired"
       /\ run.idx >= 1 /\ run.access_token = tokenCtr

\* C29: when the stored credential is stale, the provider answers the
\* refresh with 200 and saving the new record fails, refresh_token_endpoint
\* returns 500 and auto_book fails with ReauthRequired: the fresh token is
\* dropped, the stored record stays the old one and no venue is attempted.
C29_SaveFailureAbortsRun ==
  RefreshSaveFailed
    => /\ run.pc = "done" /\ run.result = "ReauthRequired"
       /\ run.refresh_code = 500
       /\ run.idx = 0 /\ run.access_token = NoToken
       /\ VenueReqIndexes = {}
       /\ load_json_file(tokensFile).access_token # tokenCtr

\* a run with two venues to try ended at the failed save
C29_Witness ==
  /\ RefreshSaveFailed /\ run.result = "ReauthRequired"
  /\ Len(run.venues) = 2 /\ tokenCtr = 2

C28_CheckOrder ==
  lastAuth.called /\ lastAuth.sid # NoSid /\ lastAuth.url.kind # "empty"
    => /\ ~lastAuth.known
            => lastAuth.result = "InvalidSession" /\ ~lastAuth.sent
       /\ lastAuth.known /\ lastAuth.url.kind = "ok"
            /\ lastAuth.url.code = NoCode
            => lastAuth.result = "MissingCode" /\ ~lastAuth.sent
       /\ lastAuth.known /\ lastAuth.url.kind = "ok"
            /\ lastAuth.url.code # NoCode
            /\ lastAuth.url.state # lastAuth.expected
            => lastAuth.result = "StateMismatch" /\ ~lastAuth.sent
       /\ lastAuth.sent
            <=> /\ lastAuth.known /\ lastAuth.url.kind = "ok"
                /\ lastAuth.url.code # NoCode
                /\ lastAuth.url.state = lastAuth.expected

\* a known session, a URL without a code and with another session's state
C28_Witness ==
  /\ lastAuth.called /\ lastAuth.known
  /\ lastAuth.url.kind = "ok" /\ lastAuth.url.code = NoCode
  /\ lastAuth.url.state \notin {lastAuth.expected, NoState}
  /\ lastAuth.result = "MissingCode"


\* C25: under any interleaving of the sweep, start_session and
\* complete_session in different request threads, no request fails because
\* another one changed the session map (no KeyError from deleting a removed
\* session, no RuntimeError from the map changing during the sweep), and a
\* completion that passed its lookup and got 200 returns the credential.
C25_MapSafeUnderConcurrency ==
  \A t \in Threads :
    /\ threads[t].error = "None"
    /\ (threads[t].pc = "returned" /\ threads[t].status = 200)
         => (threads[t].result = "Success" /\ threads[t].token # NoToken)

\* C30: under any interleaving of complete_session calls (two calls for one
\* session at once, a call whose token request raises), at most one token
\* request is ever sent to the provider per session.
C30_OneExchangePerSession ==
  \A s \in SessionIds : exchanges[s] <= 1


\* the requests one of the calls has sent so far
RequestsOf(r) == SelectSeq(rlog, LAMBDA e : e.runner = r)
\* the lock requests one call has sent, in order
LocksOf(r) == SelectSeq(RequestsOf(r), LAMBDA e : e.req.kind = "lock")

\* a call sends its own requests: its k-th lock is for its k-th venue, and
\* each of its bookings follows its own accepted lock and names that lock
OwnRequests(r) ==
  LET log == RequestsOf(r)
  IN /\ \A k \in 1..Len(LocksOf(r)) :
          LocksOf(r)[k].req.venue = runs[r].venues[k]
     /\ \A i \in 1..Len(log) :
          /\ log[i].req.token = runs[r].access_token
          /\ log[i].req.kind = "booking" =>
               /\ i > 1
               /\ log[i-1].req.kind = "lock"
               /\ LockOk(log[i-1].req.status)
               /\ log[i-1].req.venue = log[i].req.venue
               /\ log[i].req.lock_id = log[i-1].req.lock_id

\* C26: there is no mutual exclusion or idempotency key between
\* orchestration runs: whatever another run is doing, a run can start, send
\* its next lock request and send its booking request, and the requests it
\* sends are its own (so both runs can end Booked).
C26_RunsIndependent ==
  \A r \in Runners :
    /\ (runs[r].pc = "idle" /\ Loaded(tokensFile)) => ENABLED RunStart(r)
    /\ (runs[r].pc = "venues" /\ runs[r].idx <= Len(runs[r].venues))
         => ENABLED RunLock(r)
    /\ runs[r].pc = "locked" => ENABLED RunBooking(r)
    /\ OwnRequests(r)

\* two runs that overlapped (each sent its lock before the other sent its
\* booking) have both ended Booked
C26_Witness ==
  /\ \A r \in Runners : runs[r].result = "Booked"
  /\ \E i, j, k, l \in 1..Len(rlog) :
       /\ i < l /\ j < k
       /\ rlog[i].runner = 1 /\ rlog[i].req.kind = "lock"
       /\ rlog[k].runner = 1 /\ rlog[k].req.kind = "booking"
       /\ BookingOk(rlog[k].req.status)
       /\ rlog[j].runner = 2 /\ rlog[j].req.kind = "lock"
       /\ rlog[l].runner = 2 /\ rlog[l].req.kind = "booking"
       /\ BookingOk(rlog[l].req.status)


\* ============================================ per-run requests (C31, C33, C34)
\* C31: when auto_book refreshes a stale credential successfully, every lock
\* and booking request of that run carries the access token of the record
\* reloaded after the refresh, never the token of the stale record loaded at
\* the start of the run.
C31_TokenAfterRefresh ==
  (run.stale /\ run.refresh_code = 200) =>
    /\ Loaded(tokensFile)
    /\ \A i \in VenueReqIndexes :
         /\ reqs[i].token = load_json_file(tokensFile).access_token
         /\ reqs[i].token # load_json_file(run.loaded).access_token

\* a run that refreshed successfully has sent a lock and a booking request
C31_Witness ==
  /\ run.stale /\ run.refresh_code = 200
  /\ \E i, j \in VenueReqIndexes : IsLock(reqs[i]) /\ IsBooking(reqs[j])


\* ============================================== the credential file (C32)
\* the provider answered a token request of this step with 200: it issued a
\* fresh token
TokenIssued == tokenCtr' = tokenCtr + 1

\* the request handled by this step
CompleteAuthStep == ~lastAuth.called /\ lastAuth'.called
RefreshStep == ~CompleteAuthStep /\ tokenCtr' # tokenCtr
RunStep == runs' # runs

\* C32 as stated: the stored credential record changes only as the result of
\* a token-endpoint 200 response.
C32_Original ==
  [][tokensFile' # tokensFile => TokenIssued]_vars

\* C32: the stored credential record changes only as the result of a
\* token-endpoint 200 response or of a manual save (POST /save-tokens with
\* both tokens); every complete_session call that does not succeed, every
\* refresh that gets a non-200 response and every auto_book run that
\* performs no refresh leave the record exactly as it was.
C32_ChangedOnlyBy200OrManualSave ==
  [][
    /\ (tokensFile' # tokensFile) =>
          \/ TokenIssued
          \/ /\ Loaded(tokensFile')
             /\ load_json_file(tokensFile').access_token = ManualToken
    /\ (CompleteAuthStep /\ lastAuth'.result # "Success")
          => (tokensFile' = tokensFile)
    /\ ((RefreshStep \/ CompleteAuthStep) /\ (tokensFile' # tokensFile))
          => /\ Loaded(tokensFile')
             /\ load_json_file(tokensFile').access_token = tokenCtr'
    /\ RunStep => (tokensFile' = tokensFile)
  ]_vars

\* a failed completion, a refresh and a finished auto_book call have all
\* happened, and the record on file is the one the provider issued last
C32_Witness ==
  /\ runs[1].pc = "done" /\ runs[1].result = "Booked"
  /\ tokenCtr = MaxTokens
  /\ Loaded(tokensFile)
  /\ load_json_file(tokensFile).access_token = MaxTokens
  /\ \E s \in SessionIds : authHist[s].called /\ ~authHist[s].answered


\* the booking requests of the run that were answered with success
BookedIndexes ==
  {i \in 1..Len(reqs) : IsBooking(reqs[i]) /\ BookingOk(reqs[i].status)}

\* C33: in one auto_book run at most one booking request receives a success
\* response; after the first Booked venue no lock or booking request is
\* sent, also when the venue list names a venue twice.
C33_AtMostOneBooking ==
  /\ Cardinality(BookedIndexes) <= 1
  /\ \A i \in BookedIndexes : \A j \in VenueReqIndexes : j <= i

\* the list names "A" twice; the first attempt booked and the run is over
C33_Witness ==
  /\ run.venues = <<"A", "A">>
  /\ run.pc = "done" /\ run.result = "Booked"
  /\ Cardinality(BookedIndexes) = 1
  /\ Len(LockReqs) = 1


\* C34: all venue attempts of one auto_book run carry the same date_time,
\* party_size and phone number: the parameters (with the default date_time
\* of two days ahead at a fixed hour and the default party size and number
\* when the caller leaves them out) are fixed before the loop, every lock
\* and booking request carries them, and the date_time recorded in a success
\* outcome is the one that was sent.
C34_SameParameters ==
  /\ run.pc # "idle" =>
       \E b \in RequestBodies :
         /\ run.date_time = IF b.date_time = NoDateTime
                            THEN <<(run.started \div 86400) + 2, "T18:00">>
                            ELSE b.date_time
         /\ run.party_size = (IF b.party_size = NoVal THEN 2
                              ELSE b.party_size)
         /\ run.phone_number = (IF b.phone_number = "" THEN "7709255248"
                                ELSE b.phone_number)
  /\ \A i \in VenueReqIndexes :
       /\ reqs[i].date_time = run.date_time
       /\ reqs[i].party_size = run.party_size
       /\ IsBooking(reqs[i]) => reqs[i].phone_number = run.phone_number
  /\ (run.result = "Booked" /\ run.saved) =>
       /\ lastBookingFile.kind = "json"
       /\ lastBookingFile.data.booking_time = reqs[Len(reqs)].date_time

\* a run with the default date_time was refused at its first venue, booked
\* at the second and saved the outcome
C34_Witness ==
  /\ run.result = "Booked" /\ run.saved
  /\ Len(LockReqs) = 2
  /\ run.date_time = <<(StartTime \div 86400) + 2, "T18:00">>
  /\ run.party_size = 2


\* ================================================ session isolation (C35)
\* sessions the sweep of this request leaves in the map
LiveSessions == DOMAIN cleanup_sessions(oauth_sessions, now)

\* the call of this step presented a live session with a redirect URL (code
\* and state) that carries the state of another live session
PresentedOtherState ==
  /\ CompleteAuthStep
  /\ lastAuth'.sid \in LiveSessions
  /\ lastAuth'.url.kind = "ok" /\ lastAuth'.url.code # NoCode
  /\ \E o \in LiveSessions \ {lastAuth'.sid} :
       lastAuth'.url.state = oauth_sessions[o].state

\* C35: sessions are isolated: no request changes an existing session entry;
\* start_session removes no session that has not expired, and a
\* complete_session call for session s (whatever its outcome) removes no
\* other session that has not expired; presenting session s with a redirect
\* URL carrying the state of a different live session fails with
\* StateMismatch and sends no token request.
C35_SessionsIsolated ==
  [][
    /\ \A s \in DOMAIN oauth_sessions :
         /\ s \in DOMAIN oauth_sessions'
              => (oauth_sessions'[s] = oauth_sessions[s])
         /\ s \notin DOMAIN oauth_sessions'
              => \/ Expired(oauth_sessions[s].created_at, now)
                 \/ CompleteAuthStep /\ lastAuth'.sid = s
    /\ PresentedOtherState
         => (lastAuth'.result = "StateMismatch" /\ ~lastAuth'.sent)
  ]_vars

\* session 1 was presented with the state of session 2 and refused; both
\* sessions are still in the map
C35_Witness ==
  /\ lastAuth.called /\ lastAuth.sid = 1
  /\ lastAuth.result = "StateMismatch"
  /\ {1, 2} \subseteq DOMAIN oauth_sessions
  /\ lastAuth.url.state = oauth_sessions[2].state


\* ===================================================== termination (C36)
\* every upstream call of the run so far has returned an answer
AllReturned == \A i \in 1..Len(reqs) : reqs[i].status # Raised

RefreshReqs == SelectSeq(reqs, LAMBDA q : q.kind = "refresh")
BookingReqs == SelectSeq(reqs, IsBooking)

\* the run is over with one of the four results of the orchestrator
EndedInFour ==
  /\ run.pc = "done"
  /\ run.result \in {"Unauthenticated", "ReauthRequired", "Booked",
                     "AllFailed"}

\* C36: when every upstream call returns, every auto_book run terminates in
\* exactly one of four results (Unauthenticated, ReauthRequired, success at
\* one venue, all venues failed) after at most one refresh request and at
\* most one lock request and one booking request per list entry.
C36_TerminatesInFourResults ==
  /\ [](AllReturned =>
          /\ Len(RefreshReqs) <= 1
          /\ Len(LockReqs) <= Len(run.venues)
          /\ Len(BookingReqs) <= Len(LockReqs)
          /\ run.pc = "done" => EndedInFour)
  /\ (run.pc \in {"venues", "locked"}) ~> (run.pc = "done")

====
